---------------------------- MODULE Spec2Model ----------------------------
(***************************************************************************)
(* Model of the AWS spot provisioner,                                      *)
(* master/internal/rm/agentrm/provisioner/aws_spot.go: the tracked set of  *)
(* spot requests, the clock-skew state, and the operations listSpot,       *)
(* launchSpot, terminateSpot and attemptToApproximateClockSkew, run        *)
(* against a model of the EC2 API (eventually consistent listings, a clock *)
(* that differs from the local one).                                       *)
(*                                                                         *)
(* Durations and times are whole seconds (the code's time.Duration counts  *)
(* nanoseconds in an int64; every value here is far from its limits).      *)
(***************************************************************************)
EXTENDS Integers, Sequences, FiniteSets, TLC

VARIABLES
    trackedReqs,           \* c.spot.trackedReqs: request ID -> spotRequest
    approximateClockSkew,  \* c.spot.approximateClockSkew
    launchTimeOffset,      \* c.spot.launchTimeOffset
    approxClockSkew,       \* attemptToApproximateClockSkew's measurement (awsCreateTime - localCreateTime)
    pc,                    \* where the engine is: "new", "idle", or inside a loop that blocks on the API
    loop,                  \* the locals of the loop the engine is in
    awsReqs,               \* EC2: the spot requests of the pool, request ID -> request
    awsInstances,          \* EC2: instance ID -> instance
    awsClock,              \* EC2: the API's clock
    awsSkew,               \* EC2: how far the API's clock is ahead of the local clock
    attempt,               \* the creation attempts of the current (or last) launchSpot call
    launched,              \* the requests the last launchSpot call added, through the tick right after it
    last                   \* the last operation: its result and the API calls it made

(***************************************************************************)
(* Constants of the program.                                               *)
(***************************************************************************)
spotRequestIDPrefix == "sir-"
launchTimeOffsetGrowth == 10
roundInterval == 10
launchTimeOffsetDefault == 10

\* Bounds of the model.
MaxDur == 35

Nil == "<nil>"

(***************************************************************************)
(* time.Duration.Round(m), as the Go library computes it: to the nearest   *)
(* multiple of m, halfway values away from zero. Go's % truncates, so the  *)
(* remainder has the sign of d.                                            *)
(***************************************************************************)
GoRem(d, m) == IF d >= 0 THEN d % m ELSE 0 - ((0 - d) % m)

lessThanHalf(x, y) == x + x < y

DurationRound(d, m) ==
    IF m <= 0 THEN d
    ELSE LET r == GoRem(d, m) IN
         IF d < 0
         THEN IF lessThanHalf(0 - r, m) THEN d + (0 - r) ELSE d - m + (0 - r)
         ELSE IF lessThanHalf(r, m) THEN d - r ELSE d + m - r

\* A plausible slip: the nearest multiple, without the step up.
roundDurationNearest(d) == DurationRound(d, roundInterval)

roundDurationUp(d) ==
    LET rounded == DurationRound(d, roundInterval) IN
    IF rounded < d THEN rounded + roundInterval ELSE rounded

(***************************************************************************)
(* Identifiers. A spot request ID is "sir-" and a digit, an instance ID is *)
(* "i-" and a digit; request k is fulfilled by instance k.                 *)
(***************************************************************************)
MaxReqs == 2

Digit(k) == <<"1", "2", "3", "4", "5", "6", "7", "8", "9">>[k]
ReqID(k) == spotRequestIDPrefix \o Digit(k)
InstID(k) == "i-" \o Digit(k)
ReqIDs == {ReqID(k) : k \in 1..MaxReqs}
InstIDs == {InstID(k) : k \in 1..MaxReqs}
InstOf(id) == InstID(CHOOSE k \in 1..MaxReqs : ReqID(k) = id)

\* strings.HasPrefix
HasPrefix(s, prefix) ==
    /\ Len(s) >= Len(prefix)
    /\ SubSeq(s, 1, Len(prefix)) = prefix

(***************************************************************************)
(* setOfSpotRequests: a map from request ID to spotRequest, here a         *)
(* function whose domain is the set of IDs it holds.                       *)
(***************************************************************************)
newSetOfSpotRequests == <<>>

add(s, req) ==
    [id \in DOMAIN s \cup {req.SpotRequestID} |->
        IF id = req.SpotRequestID THEN req ELSE s[id]]

delete(s, req) == [id \in DOMAIN s \ {req.SpotRequestID} |-> s[id]]

deleteIntersection(s, other) == [id \in DOMAIN s \ DOMAIN other |-> s[id]]

numReqs(s) == Cardinality(DOMAIN s)

idsAsList(s) == DOMAIN s

instanceIds(s) == {s[id].InstanceID : id \in {x \in DOMAIN s : s[x].InstanceID # Nil}}

\* The orders in which a Go map may be iterated: every order of its keys.
Orders(S) ==
    {o \in [1..Cardinality(S) -> S] : \A i, j \in 1..Cardinality(S) : i # j => o[i] # o[j]}

(***************************************************************************)
(* The spotRequest built from one entry of a DescribeSpotInstanceRequests  *)
(* response.                                                               *)
(***************************************************************************)
spotRequestOf(r) ==
    [SpotRequestID |-> r.SpotRequestID,
     State         |-> r.State,
     StatusCode    |-> r.StatusCode,
     StatusMessage |-> r.StatusMessage,
     InstanceID    |-> r.InstanceID,
     CreationTime  |-> r.CreationTime]

\* The spotRequest launchSpot tracks for one request of the response: it has
\* no instance yet.
trackedRequestOf(r) ==
    [SpotRequestID |-> r.SpotRequestID,
     State         |-> r.State,
     StatusCode    |-> r.StatusCode,
     StatusMessage |-> r.StatusMessage,
     InstanceID    |-> Nil,
     CreationTime  |-> r.CreationTime]

isActiveOrOpen(state) == state = "active" \/ state = "open"

(***************************************************************************)
(* The EC2 API. A request of the pool is a record with the response's      *)
(* fields and Deferred, which says that its validFrom lies hours ahead     *)
(* (EC2 does not try to fulfil it). Listings are eventually consistent: a  *)
(* listing may leave out any request that matches it.                      *)
(***************************************************************************)
NextIdx == Cardinality(DOMAIN awsReqs) + 1

\* EC2 rejects a validFrom that is not in the future by its own clock.
ValidFromAccepted(validFrom) == validFrom > awsClock

NewAwsReq(k, validFrom) ==
    [SpotRequestID |-> ReqID(k),
     State         |-> "open",
     StatusCode    |-> "pending-evaluation",
     StatusMessage |-> "pending-evaluation",
     InstanceID    |-> Nil,
     CreationTime  |-> awsClock,
     Deferred      |-> validFrom - awsClock >= 3600]

\* RequestSpotInstances accepted: n new requests, created at the API's time.
Created(n, validFrom) ==
    [id \in {ReqID(k) : k \in NextIdx..(NextIdx + n - 1)} |->
        NewAwsReq(CHOOSE k \in NextIdx..(NextIdx + n - 1) : ReqID(k) = id, validFrom)]

AwsAfterCreate(new) ==
    [id \in DOMAIN awsReqs \cup DOMAIN new |->
        IF id \in DOMAIN new THEN new[id] ELSE awsReqs[id]]

\* CancelSpotInstanceRequests: an open request is cancelled, an active one is
\* cancelled and its instance keeps running.
CancelOne(r) ==
    IF r.State = "open"
    THEN [r EXCEPT !.State = "cancelled", !.StatusCode = "canceled-before-fulfillment",
                   !.StatusMessage = "canceled-before-fulfillment"]
    ELSE IF r.State = "active"
    THEN [r EXCEPT !.State = "cancelled", !.StatusCode = "request-canceled-and-instance-running",
                   !.StatusMessage = "request-canceled-and-instance-running"]
    ELSE r

AwsAfterCancel(reqs, ids) ==
    [id \in DOMAIN reqs |-> IF id \in ids THEN CancelOne(reqs[id]) ELSE reqs[id]]

\* TerminateInstances: a running instance starts shutting down.
AwsAfterTerminate(insts, ids) ==
    [i \in DOMAIN insts |->
        IF i \in ids /\ insts[i].State = "running"
        THEN [insts[i] EXCEPT !.State = "shutting-down"]
        ELSE insts[i]]

\* What the three DescribeSpotInstanceRequests filters match.
MatchesActive == {id \in DOMAIN awsReqs : awsReqs[id].State \in {"open", "active"}}
MatchesCanceledRunning ==
    {id \in DOMAIN awsReqs : awsReqs[id].StatusCode = "request-canceled-and-instance-running"}
MatchesIDs(ids) == DOMAIN awsReqs \cap ids

Response(ids) == [id \in ids |-> spotRequestOf(awsReqs[id])]

(***************************************************************************)
(* listSpot, step by step.                                                 *)
(***************************************************************************)
ErrDescribeSpotRequests == "cannot describe EC2 spot requests"
\* A plausible slip in ErrDescribeInstances: the failure is not reported.
ErrDescribeInstancesIgnored == Nil
ErrDescribeInstances == "cannot describe EC2 instances"
SpotRequestPendingAWS == "SpotRequestPendingAWS"

\* A plausible slip in trackAll: a request already tracked keeps its tracked version.
trackAllNew(tracked, activeReqsInAPI) ==
    [id \in DOMAIN tracked \cup DOMAIN activeReqsInAPI |->
        IF id \in DOMAIN tracked THEN tracked[id] ELSE activeReqsInAPI[id]]

\* "Make sure we're tracking all active reqs": every listed request is added.
trackAll(tracked, activeReqsInAPI) ==
    [id \in DOMAIN tracked \cup DOMAIN activeReqsInAPI |->
        IF id \in DOMAIN activeReqsInAPI THEN activeReqsInAPI[id] ELSE tracked[id]]

\* A plausible slip in missingReqsOf: the whole tracked set is looked up.
missingReqsAllTracked(tracked, activeReqsInAPI) == tracked

\* missingReqs: a copy of the tracked set without the listed requests.
missingReqsOf(tracked, activeReqsInAPI) == deleteIntersection(tracked, activeReqsInAPI)

\* A plausible slip: only a closed request is dropped, a cancelled one is kept.
stopTrackingClosedOnly(tracked, newOrInactiveReqs) ==
    [id \in {x \in DOMAIN tracked :
                ~(x \in DOMAIN newOrInactiveReqs /\ newOrInactiveReqs[x].State = "closed")} |->
        tracked[id]]

\* A plausible slip: a request the lookup returns as open is dropped too.
stopTrackingNotActive(tracked, newOrInactiveReqs) ==
    [id \in {x \in DOMAIN tracked :
                ~(x \in DOMAIN newOrInactiveReqs /\ newOrInactiveReqs[x].State # "active")} |->
        tracked[id]]

\* A plausible slip: the requests found in a terminal state are kept.
stopTrackingNone(tracked, newOrInactiveReqs) == tracked

\* A plausible slip: every request the lookup returns is dropped, whatever its state.
stopTrackingAllReturned(tracked, newOrInactiveReqs) ==
    deleteIntersection(tracked, newOrInactiveReqs)

\* "stop tracking any request that is in a terminal state"
stopTracking(tracked, newOrInactiveReqs) ==
    [id \in {x \in DOMAIN tracked :
                ~(x \in DOMAIN newOrInactiveReqs /\ ~isActiveOrOpen(newOrInactiveReqs[x].State))} |->
        tracked[id]]

\* A plausible slip in emptyIDs: no list counts as empty, the remote call is always made.
emptyIDsNever(ids) == FALSE

\* "if len(spotRequestIds) == 0 { return }": listSpotRequestsByID and
\* terminateSpotInstanceRequests make no remote call for an empty list.
emptyIDs(ids) == ids = {}

\* What the runtime reports when a nil *string is dereferenced.
ErrNilDereference == "panic: runtime error: invalid memory address or nil pointer dereference"

\* The requests whose StatusCode is a nil pointer: "switch *req.StatusCode"
\* cannot read it.
withoutStatusCode(reqs) == {id \in DOMAIN reqs : reqs[id].StatusCode = Nil}

\* The requests whose StatusMessage is a nil pointer.
withoutStatusMessage(reqs) == {id \in DOMAIN reqs : reqs[id].StatusMessage = Nil}

\* The part of a set of requests with the given IDs.
only(reqs, ids) == [id \in DOMAIN reqs \cap ids |-> reqs[id]]

\* The requests listSpot logs as needing the user's attention.
notifyFromListing(activeReqsInAPI) ==
    {id \in DOMAIN activeReqsInAPI :
        activeReqsInAPI[id].StatusCode \in {"capacity-not-available", "price-too-low"}}

\* A plausible slip: bad-parameters left out of the lookup's switch.
notifyFromLookupWithoutBadParameters(newOrInactiveReqs) ==
    {id \in DOMAIN newOrInactiveReqs :
        newOrInactiveReqs[id].StatusCode \in {"constraint-not-fulfillable", "limit-exceeded"}}

notifyFromLookup(newOrInactiveReqs) ==
    {id \in DOMAIN newOrInactiveReqs :
        newOrInactiveReqs[id].StatusCode \in
            {"bad-parameters", "constraint-not-fulfillable", "limit-exceeded"}}

\* reqsToNotifyUserAbout: a set keyed by request ID, one error log for each.
reqsToNotifyUserAbout(activeReqsInAPI, newOrInactiveReqs) ==
    notifyFromListing(activeReqsInAPI) \cup notifyFromLookup(newOrInactiveReqs)

\* A plausible slip: the tagging error returned instead of logged.
errAfterTaggingReturned(tagErr) == tagErr

\* "unable to create tags on ec2 instances created by spot": logged, not returned.
errAfterTagging(tagErr) == Nil

(***************************************************************************)
(* buildInstanceListFromTrackedReqs.                                       *)
(***************************************************************************)
runningSpotInstanceIds(tracked) == instanceIds(tracked)

pendingSpotRequests(tracked) == {id \in DOMAIN tracked : tracked[id].InstanceID = Nil}

\* A plausible slip: the placeholder stamped with the zero time.
pendingInstanceWithoutTime(req) ==
    [ID         |-> req.SpotRequestID,
     LaunchTime |-> 0,
     AgentName  |-> req.SpotRequestID,
     State      |-> SpotRequestPendingAWS]

\* The fake Instance that stands for a request not yet fulfilled.
pendingInstance(req) ==
    [ID         |-> req.SpotRequestID,
     LaunchTime |-> req.CreationTime,
     AgentName  |-> req.SpotRequestID,
     State      |-> SpotRequestPendingAWS]

\* A plausible slip: only terminated instances are left out.
isNonTerminatedInstance(stateName) == stateName # "terminated"

\* "Ignore any instances in the terminated state ... Also ignore instances
\* that are shutting down"
isNonTerminalInstance(stateName) == stateName # "terminated" /\ stateName # "shutting-down"

ec2InstanceState(stateName) ==
    CASE stateName = "pending"       -> "Starting"
      [] stateName = "running"       -> "Running"
      [] stateName = "stopped"       -> "Stopped"
      [] stateName = "stopping"      -> "Stopping"
      [] stateName = "shutting-down" -> "Terminating"
      [] OTHER                       -> "Unknown"

\* c.newInstances: the Instance of an EC2 instance.
newInstance(i, inst) ==
    [ID         |-> i,
     LaunchTime |-> inst.LaunchTime,
     AgentName  |-> i,
     State      |-> ec2InstanceState(inst.State)]

\* A plausible slip in combined: the placeholders come first.
combinedPendingFirst(realOrder, insts, pendingOrder, tracked) ==
    [k \in 1..Len(pendingOrder) |-> pendingInstance(tracked[pendingOrder[k]])]
    \o [k \in 1..Len(realOrder) |-> newInstance(realOrder[k], insts[realOrder[k]])]

\* combined: the real instances, then the placeholders.
combined(realOrder, insts, pendingOrder, tracked) ==
    [k \in 1..Len(realOrder) |-> newInstance(realOrder[k], insts[realOrder[k]])]
    \o [k \in 1..Len(pendingOrder) |-> pendingInstance(tracked[pendingOrder[k]])]

(***************************************************************************)
(* What the model remembers of the last operation: its name, the error it  *)
(* returned (Nil for none), the list listSpot returned, the two lookups'   *)
(* results, the API calls made, in order, and the requests an error-level  *)
(* log was written for.                                                    *)
(***************************************************************************)
ApiCall(api, ids, err) == [api |-> api, ids |-> ids, err |-> err]

Result(op, input, err, outList, A, L, cs) ==
    [op |-> op, input |-> input, err |-> err, out |-> outList,
     activeReqsInAPI |-> A, newOrInactiveReqs |-> L, calls |-> cs, diagnostics |-> {}]

\* The result of a listSpot that got as far as its error logs.
Logged(res) ==
    [res EXCEPT !.diagnostics = reqsToNotifyUserAbout(res.activeReqsInAPI, res.newOrInactiveReqs)]

NoResult(op, input) == Result(op, input, Nil, <<>>, <<>>, <<>>, <<>>)

NoAttempt ==
    [n |-> 0, now |-> 0, validFrom |-> 0, skew |-> 0, offset |-> 0, err |-> Nil, prior |-> {}]

NoLoop == [numInstances |-> 0, numRetries |-> 0, req |-> Nil]

CallErrors == {Nil, "RequestLimitExceeded"}

Idle == pc \in {"new", "idle"}

\* The requests of the last launchSpot are remembered through the first tick
\* that follows it.
LaunchedAfterTick == IF last.op = "listSpot" THEN <<>> ELSE launched

ListSpotReturns(tracked, insts, res) ==
    /\ trackedReqs' = tracked
    /\ awsInstances' = insts
    /\ last' = res
    /\ pc' = "idle"
    /\ attempt' = NoAttempt
    /\ launched' = LaunchedAfterTick
    /\ UNCHANGED <<approximateClockSkew, launchTimeOffset, approxClockSkew, loop,
                   awsReqs, awsClock, awsSkew>>

\* listSpot does not return: a nil pointer is dereferenced and the goroutine
\* panics, with the tracked set as the statements before it left it.
ListSpotPanics(tracked, res) ==
    /\ trackedReqs' = tracked
    /\ last' = res
    /\ pc' = "crashed"
    /\ attempt' = NoAttempt
    /\ launched' = LaunchedAfterTick
    /\ UNCHANGED <<approximateClockSkew, launchTimeOffset, approxClockSkew, loop,
                   awsReqs, awsInstances, awsClock, awsSkew>>

\* A plausible slip in orphanInstanceIds: only the instances of requests still tracked.
orphanInstanceIdsOfTracked(canceledButInstanceRunningReqs, tracked) ==
    instanceIds([id \in DOMAIN canceledButInstanceRunningReqs \cap DOMAIN tracked |->
                    canceledButInstanceRunningReqs[id]])

\* The instances listSpot terminates: those of every request of the
\* canceled-but-running listing, whatever is tracked.
orphanInstanceIds(canceledButInstanceRunningReqs, tracked) ==
    instanceIds(canceledButInstanceRunningReqs)

\* The end of listSpot, from the listing of canceled-but-running requests on.
ListSpotCleanupAndBuild(tracked, A, L, cs) ==
    \/ \* the listing of canceled-but-running requests fails
       ListSpotReturns(tracked, awsInstances,
            Logged(Result("listSpot", Nil, ErrDescribeSpotRequests, <<>>, A, L,
                   Append(cs, ApiCall("ListCanceledButRunning", {}, "RequestLimitExceeded")))))
    \/ LET canceledButInstanceRunningReqs == Response(MatchesCanceledRunning)
           orphans == orphanInstanceIds(canceledButInstanceRunningReqs, tracked)
           cs1 == Append(cs, ApiCall("ListCanceledButRunning", {}, Nil))
       IN \E termErr \in IF numReqs(canceledButInstanceRunningReqs) > 0 THEN CallErrors ELSE {Nil} :
          LET insts == IF numReqs(canceledButInstanceRunningReqs) > 0 /\ termErr = Nil
                       THEN AwsAfterTerminate(awsInstances, orphans)
                       ELSE awsInstances
              cs2 == IF numReqs(canceledButInstanceRunningReqs) > 0
                     THEN Append(cs1, ApiCall("TerminateInstances", orphans, termErr))
                     ELSE cs1
              running == runningSpotInstanceIds(tracked)
              pending == pendingSpotRequests(tracked)
          IN \/ \* DescribeInstances fails
                /\ running # {}
                /\ ListSpotReturns(tracked, insts,
                        Logged(Result("listSpot", Nil, ErrDescribeInstances, <<>>, A, L,
                               Append(cs2, ApiCall("DescribeInstances", running, "RequestLimitExceeded")))))
             \/ LET nonTerminal == {i \in running : isNonTerminalInstance(insts[i].State)}
                    cs3 == IF running # {}
                           THEN Append(cs2, ApiCall("DescribeInstances", running, Nil))
                           ELSE cs2
                IN \E realOrder \in Orders(nonTerminal), pendingOrder \in Orders(pending) :
                      ListSpotReturns(tracked, insts,
                            Logged(Result("listSpot", Nil, Nil,
                                   combined(realOrder, insts, pendingOrder, tracked), A, L, cs3)))

ListSpot ==
    /\ Idle
    /\ \/ \* the listing of open and active requests fails
          ListSpotReturns(trackedReqs, awsInstances,
                Result("listSpot", Nil, ErrDescribeSpotRequests, <<>>, <<>>, <<>>,
                       <<ApiCall("ListActive", {}, "RequestLimitExceeded")>>))
       \/ \E listed \in SUBSET MatchesActive :
          LET activeReqsInAPI == Response(listed)
              tracked1 == trackAll(trackedReqs, activeReqsInAPI)
              tagged == instanceIds(activeReqsInAPI)
              missingReqs == missingReqsOf(tracked1, activeReqsInAPI)
              cs0 == <<ApiCall("ListActive", {}, Nil)>>
          IN \E tagErr \in IF tagged = {} THEN {Nil} ELSE CallErrors :
             LET cs1 == IF tagged = {} THEN cs0
                        ELSE Append(cs0, ApiCall("CreateTags", tagged, tagErr))
             IN \/ \* the tick ends with the error left after tagging, if any is left
                   /\ errAfterTagging(tagErr) # Nil
                   /\ ListSpotReturns(tracked1, awsInstances,
                         Result("listSpot", Nil, errAfterTagging(tagErr), <<>>, activeReqsInAPI, <<>>, cs1))
                \/ \* the first switch reads the status code of a request that has none
                   /\ errAfterTagging(tagErr) = Nil
                   /\ withoutStatusCode(activeReqsInAPI) # {}
                   /\ ListSpotPanics(tracked1,
                         Result("listSpot", Nil, ErrNilDereference, <<>>, activeReqsInAPI, <<>>, cs1))
                \/ \* the lookup by ID fails
                   /\ errAfterTagging(tagErr) = Nil
                   /\ withoutStatusCode(activeReqsInAPI) = {}
                   /\ ~emptyIDs(idsAsList(missingReqs))
                   /\ ListSpotReturns(tracked1, awsInstances,
                         Result("listSpot", Nil, ErrDescribeSpotRequests, <<>>, activeReqsInAPI, <<>>,
                                Append(cs1, ApiCall("ListByID", idsAsList(missingReqs),
                                                    "RequestLimitExceeded"))))
                \/ /\ errAfterTagging(tagErr) = Nil
                   /\ withoutStatusCode(activeReqsInAPI) = {}
                   /\ \E found \in SUBSET MatchesIDs(idsAsList(missingReqs)) :
                      LET newOrInactiveReqs == Response(found)
                          tracked2 == stopTracking(tracked1, newOrInactiveReqs)
                          cs2 == IF emptyIDs(idsAsList(missingReqs)) THEN cs1
                                 ELSE Append(cs1, ApiCall("ListByID", idsAsList(missingReqs), Nil))
                          notified == reqsToNotifyUserAbout(activeReqsInAPI, newOrInactiveReqs)
                      IN IF withoutStatusCode(newOrInactiveReqs) # {}
                         THEN \* the second switch reads the status code of a request that
                              \* has none, after the requests the loop met before it
                              \E bad \in withoutStatusCode(newOrInactiveReqs) :
                              \E before \in SUBSET (found \ withoutStatusCode(newOrInactiveReqs)) :
                                 ListSpotPanics(
                                    stopTracking(tracked1, only(newOrInactiveReqs, before \cup {bad})),
                                    Result("listSpot", Nil, ErrNilDereference, <<>>,
                                           activeReqsInAPI, newOrInactiveReqs, cs2))
                         ELSE IF notified \cap (withoutStatusMessage(activeReqsInAPI)
                                                 \cup withoutStatusMessage(newOrInactiveReqs)) # {}
                         THEN \* the error log reads the status message of a request that
                              \* has none
                              ListSpotPanics(tracked2,
                                    Result("listSpot", Nil, ErrNilDereference, <<>>,
                                           activeReqsInAPI, newOrInactiveReqs, cs2))
                         ELSE ListSpotCleanupAndBuild(tracked2, activeReqsInAPI,
                                                      newOrInactiveReqs, cs2)

(***************************************************************************)
(* terminateSpot.                                                          *)
(***************************************************************************)
\* A plausible slip: the prefix tested without its dash.
isSpotRequestIDLoose(instanceID) == HasPrefix(instanceID, "sir")

isSpotRequestID(instanceID) == HasPrefix(instanceID, spotRequestIDPrefix)

pendingSpotReqsToTerminate(instanceIDs) ==
    {instanceIDs[k] : k \in {j \in 1..Len(instanceIDs) : isSpotRequestID(instanceIDs[j])}}

instancesToTerminate(instanceIDs) ==
    {instanceIDs[k] : k \in {j \in 1..Len(instanceIDs) : ~isSpotRequestID(instanceIDs[j])}}

\* What terminateSpot may be handed: IDs of requests and of instances, and
\* strings that only resemble a request ID, in lists of up to MaxTermLen.
MaxTermLen == 2
TermIDs == ReqIDs \cup InstIDs \cup {"sir", "i-sir-1"}
MixedInputs == UNION {[1..n -> TermIDs] : n \in 0..MaxTermLen}
TerminateInputs == {<<>>} \cup {<<id>> : id \in DOMAIN awsReqs \cup DOMAIN awsInstances}

\* EC2 refuses a call that names an ID it does not know.
TerminateOutcomes(ids) ==
    IF ids \subseteq DOMAIN awsInstances THEN CallErrors ELSE {"InvalidInstanceID.NotFound"}
CancelOutcomes(ids) ==
    IF ids \subseteq DOMAIN awsReqs THEN CallErrors ELSE {"InvalidSpotInstanceRequestID.NotFound"}

\* The calls terminateSpot makes and what they do to EC2.
terminateSpotCalls(inputs) ==
    /\ Idle
    /\ \E instanceIDs \in inputs :
       LET insts == instancesToTerminate(instanceIDs)
           reqs == pendingSpotReqsToTerminate(instanceIDs)
       IN \E termErr \in IF Len(instanceIDs) > 0 /\ insts # {} THEN TerminateOutcomes(insts) ELSE {Nil},
             cancelErr \in IF Len(instanceIDs) > 0 /\ ~emptyIDs(reqs) THEN CancelOutcomes(reqs) ELSE {Nil} :
          LET cs1 == IF Len(instanceIDs) > 0 /\ insts # {}
                     THEN <<ApiCall("TerminateInstances", insts, termErr)>> ELSE <<>>
              cs2 == IF Len(instanceIDs) > 0 /\ ~emptyIDs(reqs)
                     THEN Append(cs1, ApiCall("CancelSpotInstanceRequests", reqs, cancelErr)) ELSE cs1
          IN /\ awsInstances' = IF Len(cs1) > 0 /\ termErr = Nil
                                THEN AwsAfterTerminate(awsInstances, insts) ELSE awsInstances
             /\ awsReqs' = IF Len(cs2) > Len(cs1) /\ cancelErr = Nil
                           THEN AwsAfterCancel(awsReqs, reqs) ELSE awsReqs
             /\ last' = Result("terminateSpot", instanceIDs, Nil, <<>>, <<>>, <<>>, cs2)
    /\ pc' = "idle"
    /\ attempt' = NoAttempt
    /\ launched' = <<>>
    /\ UNCHANGED <<approximateClockSkew, launchTimeOffset, approxClockSkew, loop,
                   awsClock, awsSkew>>

\* A plausible slip: the IDs handed in are dropped from the tracked set.
terminateSpotUntracking(inputs) ==
    /\ terminateSpotCalls(inputs)
    /\ trackedReqs' = [id \in DOMAIN trackedReqs \ {last'.input[k] : k \in 1..Len(last'.input)} |->
                          trackedReqs[id]]

\* terminateSpot never touches c.spot.trackedReqs.
terminateSpot(inputs) ==
    /\ terminateSpotCalls(inputs)
    /\ UNCHANGED trackedReqs

\* terminateSpot handed nothing, or one ID that EC2 knows.
TerminateSpot == terminateSpot(TerminateInputs)

(***************************************************************************)
(* launchSpot and createSpotInstanceRequestsCorrectingForClockSkew.        *)
(***************************************************************************)
maxRetries == 5
MaxLaunch == 2
LaunchNums == (0 - 1)..MaxLaunch

\* time.Now(): the API's clock is awsSkew ahead of it.
LocalNow == awsClock - awsSkew

\* offset := c.spot.approximateClockSkew + c.spot.launchTimeOffset
offsetWithSkew(skew, offset) == skew + offset

\* validFrom := time.Now().UTC().Add(c.spot.approximateClockSkew).Add(launchTimeOffset)
validFromOf(now, skew, offsetParam) == now + skew + offsetParam

\* A plausible slip: the offset grown on every AWS error.
offsetAfterAnyError(offset, code) == offset + launchTimeOffsetGrowth

offsetAfterError(offset, code) ==
    IF code = "InvalidTime" THEN offset + launchTimeOffsetGrowth ELSE offset

\* The loop's condition, numRetries <= maxRetries.
loopContinues(numRetries) == numRetries <= maxRetries

\* A plausible slip: the tracked set replaced by the requests of the response.
trackLaunchedOnly(tracked, new) == [id \in DOMAIN new |-> trackedRequestOf(new[id])]

\* launchSpot's loop over resp.SpotInstanceRequests.
trackLaunched(tracked, new) ==
    [id \in DOMAIN tracked \cup DOMAIN new |->
        IF id \in DOMAIN new THEN trackedRequestOf(new[id]) ELSE tracked[id]]

\* A plausible slip: only zero treated as nothing to launch.
nothingToLaunchZeroOnly(instanceNum) == instanceNum = 0

\* if instanceNum <= 0 { return nil }
nothingToLaunch(instanceNum) == instanceNum <= 0

LaunchSpot ==
    /\ Idle
    /\ \E instanceNum \in LaunchNums :
          /\ instanceNum > 0 => NextIdx + instanceNum - 1 <= MaxReqs
          /\ pc' = IF nothingToLaunch(instanceNum) THEN "idle" ELSE "launch"
          /\ loop' = IF nothingToLaunch(instanceNum) THEN NoLoop
                     ELSE [NoLoop EXCEPT !.numInstances = instanceNum]
          /\ last' = NoResult("launchSpot", instanceNum)
    /\ attempt' = NoAttempt
    /\ launched' = <<>>
    /\ UNCHANGED <<trackedReqs, approximateClockSkew, launchTimeOffset, approxClockSkew,
                   awsReqs, awsInstances, awsClock, awsSkew>>

Attempted(validFrom, err) ==
    [n         |-> attempt.n + 1,
     now       |-> LocalNow,
     validFrom |-> validFrom,
     skew      |-> approximateClockSkew,
     offset    |-> launchTimeOffset,
     err       |-> err,
     prior     |-> IF attempt.n > 0 THEN attempt.prior \cup {attempt.err} ELSE {}]

\* One pass of the retry loop: one RequestSpotInstances call and what follows it.
CreateAttempt ==
    /\ pc = "launch"
    /\ LET offset == offsetWithSkew(approximateClockSkew, launchTimeOffset)
           validFrom == validFromOf(LocalNow, approximateClockSkew, offset)
       IN \/ \* accepted: launchSpot tracks the requests of the response
             /\ ValidFromAccepted(validFrom)
             /\ LET new == Created(loop.numInstances, validFrom) IN
                /\ awsReqs' = AwsAfterCreate(new)
                /\ trackedReqs' = trackLaunched(trackedReqs, new)
                /\ launched' = trackLaunched(<<>>, new)
             /\ awsClock' = awsClock + 10
             /\ attempt' = Attempted(validFrom, Nil)
             /\ last' = NoResult("launchSpot", last.input)
             /\ pc' = "idle"
             /\ loop' = NoLoop
             /\ UNCHANGED launchTimeOffset
          \/ \* an awserr.Error: the offset grows on InvalidTime, and the loop goes on
             \E code \in {"RequestLimitExceeded"} \cup
                         (IF ValidFromAccepted(validFrom) THEN {} ELSE {"InvalidTime"}) :
                /\ launchTimeOffset' = offsetAfterError(launchTimeOffset, code)
                /\ attempt' = Attempted(validFrom, code)
                /\ IF loopContinues(loop.numRetries + 1)
                   THEN /\ loop' = [loop EXCEPT !.numRetries = @ + 1]
                        /\ UNCHANGED <<pc, last>>
                   ELSE /\ loop' = NoLoop
                        /\ pc' = "idle"
                        /\ last' = Result("launchSpot", last.input, code, <<>>, <<>>, <<>>, <<>>)
                /\ UNCHANGED <<trackedReqs, launched, awsReqs, awsClock>>
          \/ \* an error that is no awserr.Error: returned at once
             /\ attempt' = Attempted(validFrom, "unknown error")
             /\ last' = Result("launchSpot", last.input, "unknown error", <<>>, <<>>, <<>>, <<>>)
             /\ pc' = "idle"
             /\ loop' = NoLoop
             /\ UNCHANGED <<trackedReqs, launched, launchTimeOffset, awsReqs, awsClock>>
    /\ UNCHANGED <<approximateClockSkew, approxClockSkew, awsInstances, awsSkew>>

(***************************************************************************)
(* attemptToApproximateClockSkew: one throwaway request, valid from 100    *)
(* hours ahead, then the loop that cancels it.                             *)
(***************************************************************************)
calibrationOffset == 360000

\* A plausible slip: the cleanup loop entered whatever the creation returned.
afterCalibrationRequestCleanup(err) == "cleanup"

\* if err != nil { ...; return }: the cleanup loop is entered on success only.
afterCalibrationRequest(err) == IF err = Nil THEN "cleanup" ELSE "idle"

AttemptToApproximateClockSkew ==
    /\ pc = "new"
    /\ LET localCreateTime == LocalNow
           validFrom == validFromOf(localCreateTime, approximateClockSkew, calibrationOffset)
       IN \/ \* the request cannot be created
             /\ pc' = afterCalibrationRequest("RequestLimitExceeded")
             /\ last' = Result("attemptToApproximateClockSkew", Nil, Nil, <<>>, <<>>, <<>>,
                               <<ApiCall("RequestSpotInstances", {}, "RequestLimitExceeded")>>)
             /\ UNCHANGED <<approxClockSkew, loop, awsReqs, awsClock>>
          \/ /\ NextIdx <= MaxReqs
             /\ ValidFromAccepted(validFrom)
             /\ LET new == Created(1, validFrom) IN
                /\ awsReqs' = AwsAfterCreate(new)
                /\ approxClockSkew' = new[ReqID(NextIdx)].CreationTime - localCreateTime
             /\ awsClock' = awsClock + 10
             /\ pc' = afterCalibrationRequest(Nil)
             /\ loop' = [NoLoop EXCEPT !.req = ReqID(NextIdx)]
             /\ last' = Result("attemptToApproximateClockSkew", Nil, Nil, <<>>, <<>>, <<>>,
                               <<ApiCall("RequestSpotInstances", {}, Nil)>>)
    /\ attempt' = NoAttempt
    /\ launched' = <<>>
    /\ UNCHANGED <<trackedReqs, approximateClockSkew, launchTimeOffset, awsInstances, awsSkew>>

\* How many times the model lets EC2 answer the cleanup with "not found".
MaxNotFound == 2

\* The answers EC2 gives to the cleanup's call.
CleanupAnswers == {Nil, "InvalidSpotInstanceRequestID.NotFound", "RequestLimitExceeded"}

\* A plausible slip in cleanupRetries: every failure is retried.
cleanupRetriesAnyError(err) == err # Nil

\* Whether the cleanup loop sleeps and calls again after this answer.
cleanupRetries(err) == err = "InvalidSpotInstanceRequestID.NotFound"

\* One pass of the cleanup loop, its call answered with err.  Success leaves
\* the loop and stores the rounded measurement; "not found" sleeps two seconds
\* and goes round again; another error returns.
CleanupPass(err) ==
    /\ pc = "cleanup"
    /\ cleanupRetries(err) => loop.numRetries < MaxNotFound
    /\ last' = [last EXCEPT !.calls =
                  Append(@, ApiCall("CancelSpotInstanceRequests", {loop.req}, err))]
    /\ IF err = Nil
       THEN /\ awsReqs' = AwsAfterCancel(awsReqs, {loop.req})
            /\ approximateClockSkew' = roundDurationUp(approxClockSkew)
       ELSE UNCHANGED <<awsReqs, approximateClockSkew>>
    /\ IF err # Nil /\ cleanupRetries(err)
       THEN /\ loop' = [loop EXCEPT !.numRetries = @ + 1]
            /\ UNCHANGED pc
       ELSE /\ pc' = "idle"
            /\ loop' = NoLoop
    /\ UNCHANGED <<trackedReqs, launchTimeOffset, approxClockSkew, awsInstances, awsClock,
                   awsSkew, attempt, launched>>

\* The cleanup's call is answered "not found".
CleanupRetry == CleanupPass("InvalidSpotInstanceRequestID.NotFound")

\* The cleanup's call succeeds, or fails with another error.
CleanupEnds == \E err \in CleanupAnswers \ {"InvalidSpotInstanceRequestID.NotFound"} :
                  CleanupPass(err)

\* One pass of the cleanup loop: one CancelSpotInstanceRequests call.
CleanupAttempt == CleanupRetry \/ CleanupEnds

(***************************************************************************)
(* What EC2 does on its own. Once the API's state has moved on, the model  *)
(* forgets the last operation's result.                                    *)
(***************************************************************************)
AwsMoves ==
    /\ last' = IF Idle THEN NoResult("aws", Nil) ELSE last
    /\ attempt' = IF Idle THEN NoAttempt ELSE attempt
    /\ launched' = IF Idle /\ last.op = "listSpot" THEN <<>> ELSE launched
    /\ UNCHANGED <<trackedReqs, approximateClockSkew, launchTimeOffset, approxClockSkew,
                   pc, loop, awsClock, awsSkew>>

SetStatus(id, state, code) ==
    awsReqs' = [awsReqs EXCEPT ![id] =
                  [@ EXCEPT !.State = state, !.StatusCode = code, !.StatusMessage = code]]

\* An open request is held back for lack of capacity.
AwsHolds ==
    /\ \E id \in DOMAIN awsReqs :
          /\ awsReqs[id].State = "open"
          /\ awsReqs[id].StatusCode = "pending-evaluation"
          /\ ~awsReqs[id].Deferred
          /\ SetStatus(id, "open", "capacity-not-available")
    /\ UNCHANGED awsInstances
    /\ AwsMoves

\* An open request is refused for good.
AwsRejects ==
    /\ \E id \in DOMAIN awsReqs :
          /\ awsReqs[id].State = "open"
          /\ ~awsReqs[id].Deferred
          /\ SetStatus(id, "closed", "bad-parameters")
    /\ UNCHANGED awsInstances
    /\ AwsMoves

\* An open request is fulfilled: its instance starts.
AwsFulfills ==
    /\ \E id \in DOMAIN awsReqs :
          /\ awsReqs[id].State = "open"
          /\ ~awsReqs[id].Deferred
          /\ awsReqs' = [awsReqs EXCEPT ![id] =
                           [@ EXCEPT !.State = "active", !.StatusCode = "fulfilled",
                                     !.StatusMessage = "fulfilled", !.InstanceID = InstOf(id)]]
          /\ awsInstances' =
                [i \in DOMAIN awsInstances \cup {InstOf(id)} |->
                    IF i = InstOf(id)
                    THEN [State |-> "running", LaunchTime |-> awsReqs[id].CreationTime + 1]
                    ELSE awsInstances[i]]
    /\ AwsMoves

\* An instance is interrupted, or finishes shutting down.
AwsInstanceStops ==
    /\ \E i \in DOMAIN awsInstances :
          /\ awsInstances[i].State \in {"running", "shutting-down"}
          /\ awsInstances' = [awsInstances EXCEPT ![i].State =
                                IF @ = "running" THEN "shutting-down" ELSE "terminated"]
    /\ UNCHANGED awsReqs
    /\ AwsMoves

\* The request of an instance that has stopped reaches its terminal state.
AwsRequestEnds ==
    /\ \E id \in DOMAIN awsReqs :
          /\ awsReqs[id].StatusCode \in {"fulfilled", "request-canceled-and-instance-running"}
          /\ awsInstances[awsReqs[id].InstanceID].State # "running"
          /\ SetStatus(id, IF awsReqs[id].State = "active" THEN "closed" ELSE "cancelled",
                       "instance-terminated-by-user")
    /\ UNCHANGED awsInstances
    /\ AwsMoves

(***************************************************************************)
(* The engine after construction, before anything is launched. The API's   *)
(* clock is ahead of the local one, or behind it.                          *)
(***************************************************************************)
TrueSkews == {15}

Init ==
    /\ trackedReqs = newSetOfSpotRequests
    /\ approximateClockSkew = 0
    /\ launchTimeOffset = launchTimeOffsetDefault
    /\ approxClockSkew = 0
    /\ pc = "new"
    /\ loop = NoLoop
    /\ awsReqs = <<>>
    /\ awsInstances = <<>>
    /\ awsClock = 100
    /\ awsSkew \in TrueSkews
    /\ attempt = NoAttempt
    /\ launched = <<>>
    /\ last = NoResult("aws", Nil)

Next ==
    \/ ListSpot
    \/ TerminateSpot
    \/ LaunchSpot
    \/ CreateAttempt
    \/ AttemptToApproximateClockSkew
    \/ CleanupAttempt
    \/ AwsHolds
    \/ AwsRejects
    \/ AwsFulfills
    \/ AwsInstanceStops
    \/ AwsRequestEnds

vars ==
    <<trackedReqs, approximateClockSkew, launchTimeOffset, approxClockSkew, pc, loop,
      awsReqs, awsInstances, awsClock, awsSkew, attempt, launched, last>>

Spec == Init /\ [][Next]_vars

\* Spec, where EC2 in the end answers the cleanup's call with something other
\* than "not found".
SpecCleanupAnswered == Spec /\ WF_vars(CleanupEnds)

(***************************************************************************)
(* terminateSpot on its own, handed every list of MixedInputs. It starts   *)
(* where launchSpot(2) has had one attempt rejected for its time and the   *)
(* next accepted, and EC2 has then fulfilled the first request.            *)
(***************************************************************************)
LaunchedReq(k) ==
    [SpotRequestID |-> ReqID(k),
     State         |-> "open",
     StatusCode    |-> "pending-evaluation",
     StatusMessage |-> "pending-evaluation",
     InstanceID    |-> Nil,
     CreationTime  |-> 100,
     Deferred      |-> FALSE]

InitTerminate ==
    /\ trackedReqs = [id \in {ReqID(1), ReqID(2)} |->
                        trackedRequestOf(IF id = ReqID(1) THEN LaunchedReq(1) ELSE LaunchedReq(2))]
    /\ approximateClockSkew = 0
    /\ launchTimeOffset = launchTimeOffsetDefault + launchTimeOffsetGrowth
    /\ approxClockSkew = 0
    /\ pc = "idle"
    /\ loop = NoLoop
    /\ awsReqs = [id \in {ReqID(1), ReqID(2)} |->
                    IF id = ReqID(1)
                    THEN [LaunchedReq(1) EXCEPT !.State = "active", !.StatusCode = "fulfilled",
                                                !.StatusMessage = "fulfilled",
                                                !.InstanceID = InstID(1)]
                    ELSE LaunchedReq(2)]
    /\ awsInstances = [i \in {InstID(1)} |-> [State |-> "running", LaunchTime |-> 101]]
    /\ awsClock = 110
    /\ awsSkew \in TrueSkews
    /\ attempt = NoAttempt
    /\ launched = trackedReqs
    /\ last = NoResult("aws", Nil)

TerminateMixed == terminateSpot(MixedInputs)

SpecTerminate == InitTerminate /\ [][TerminateMixed]_vars

(***************************************************************************)
(* listSpot where EC2 returns requests whose optional Status.Code or       *)
(* Status.Message is absent. Two requests have been launched and are       *)
(* tracked as the launch returned them; EC2 has assigned each a status     *)
(* code and message, or neither yet, or a code without a message.          *)
(***************************************************************************)
StatusVariants(r) ==
    {r,
     [r EXCEPT !.StatusCode = Nil, !.StatusMessage = Nil],
     [r EXCEPT !.StatusMessage = Nil],
     [r EXCEPT !.StatusCode = "capacity-not-available", !.StatusMessage = Nil]}

InitNoStatus ==
    /\ awsReqs \in {f \in [{ReqID(1), ReqID(2)} ->
                               StatusVariants(LaunchedReq(1)) \cup StatusVariants(LaunchedReq(2))] :
                       \A id \in DOMAIN f : f[id].SpotRequestID = id}
    /\ trackedReqs = [id \in {ReqID(1), ReqID(2)} |-> trackedRequestOf(awsReqs[id])]
    /\ approximateClockSkew = 0
    /\ launchTimeOffset = launchTimeOffsetDefault
    /\ approxClockSkew = 0
    /\ pc = "idle"
    /\ loop = NoLoop
    /\ awsInstances = <<>>
    /\ awsClock = 110
    /\ awsSkew \in TrueSkews
    /\ attempt = NoAttempt
    /\ launched = trackedReqs
    /\ last = NoResult("aws", Nil)

NextNoStatus ==
    \/ ListSpot
    \/ AwsHolds
    \/ AwsRejects
    \/ AwsFulfills

SpecNoStatus == InitNoStatus /\ [][NextNoStatus]_vars

(***************************************************************************)
(* Properties.                                                             *)
(***************************************************************************)
SuccessfulTick == last.op = "listSpot" /\ last.err = Nil

CallsTo(api) == {k \in 1..Len(last.calls) : last.calls[k].api = api}
IdsPassedTo(api) == UNION {last.calls[k].ids : k \in CallsTo(api)}

\* The backend is stable as the tick saw it: the listing returned every open
\* or active request, the lookup every existing request it was asked for.
CompleteAnswers ==
    /\ DOMAIN last.activeReqsInAPI = MatchesActive
    /\ DOMAIN last.newOrInactiveReqs = MatchesIDs(IdsPassedTo("ListByID"))

EntriesFor(id) == {k \in 1..Len(last.out) : last.out[k].ID = id}

\* C1: after a successful listSpot tick that got complete answers from the
\* backend, the tracked request IDs are exactly the remote requests whose state
\* is open or active, whatever was tracked before.
C1_Convergence ==
    (SuccessfulTick /\ CompleteAnswers) => DOMAIN trackedReqs = MatchesActive

\* A converged tick that dropped a request it found closed or cancelled and
\* kept another.
C1_Witness ==
    /\ SuccessfulTick
    /\ CompleteAnswers
    /\ \E id \in DOMAIN last.newOrInactiveReqs :
          ~isActiveOrOpen(last.newOrInactiveReqs[id].State)
    /\ trackedReqs # <<>>

\* C2: in the first tick after a successful launchSpot, when the listing holds
\* none of the launched requests and the lookup leaves each out or returns it
\* open or active, every launched request is still tracked as launchSpot
\* stored it and the returned list holds one pending placeholder for each.
C2_NoDuplicateLaunch ==
    (/\ SuccessfulTick
     /\ launched # <<>>
     /\ DOMAIN launched \cap DOMAIN last.activeReqsInAPI = {}
     /\ \A id \in DOMAIN launched \cap DOMAIN last.newOrInactiveReqs :
           isActiveOrOpen(last.newOrInactiveReqs[id].State))
    => \A id \in DOMAIN launched :
          /\ id \in DOMAIN trackedReqs
          /\ trackedReqs[id] = launched[id]
          /\ Cardinality(EntriesFor(id)) = 1
          /\ \A k \in EntriesFor(id) : last.out[k].State = SpotRequestPendingAWS

\* The tick after launchSpot(2): the listing lags behind for both requests,
\* the lookup returns one of them and leaves the other out.
C2_Witness ==
    /\ SuccessfulTick
    /\ Cardinality(DOMAIN launched) = 2
    /\ DOMAIN last.activeReqsInAPI = {}
    /\ Cardinality(DOMAIN launched \cap DOMAIN last.newOrInactiveReqs) = 1
    /\ \A id \in DOMAIN launched \cap DOMAIN last.newOrInactiveReqs :
          isActiveOrOpen(last.newOrInactiveReqs[id].State)
    /\ Len(last.out) = 2

DeadInstanceStates == {"terminated", "shutting-down"}

\* C3: a successful tick returns no instance that EC2 reports as terminated or
\* shutting down, and a request leaves the tracked set only in a tick whose
\* lookup found it in a state that is neither open nor active.
C3_DeadExcluded ==
    /\ [](SuccessfulTick =>
            \A k \in 1..Len(last.out) :
                last.out[k].ID \in DOMAIN awsInstances =>
                    awsInstances[last.out[k].ID].State \notin DeadInstanceStates)
    /\ [][\A id \in DOMAIN trackedReqs :
            id \notin DOMAIN trackedReqs' =>
                /\ last'.op = "listSpot"
                /\ id \in DOMAIN last'.newOrInactiveReqs
                /\ ~isActiveOrOpen(last'.newOrInactiveReqs[id].State)]_vars

\* A successful tick that keeps an active request whose instance is shutting
\* down or terminated, and returns nothing for it.
C3_Witness ==
    /\ SuccessfulTick
    /\ \E id \in DOMAIN trackedReqs :
          /\ trackedReqs[id].State = "active"
          /\ trackedReqs[id].InstanceID # Nil
          /\ awsInstances[trackedReqs[id].InstanceID].State \in DeadInstanceStates
          /\ EntriesFor(trackedReqs[id].InstanceID) = {}
          /\ EntriesFor(id) = {}

\* C4: a successful tick returns, for each request tracked at its end without
\* an instance, exactly one entry with the request's ID; the entry's launch
\* time is the request's creation time and its state is SpotRequestPendingAWS.
C4_PlaceholderFidelity ==
    SuccessfulTick =>
        \A id \in DOMAIN trackedReqs :
            trackedReqs[id].InstanceID = Nil =>
                /\ Cardinality(EntriesFor(id)) = 1
                /\ \A k \in EntriesFor(id) :
                      /\ last.out[k].LaunchTime = trackedReqs[id].CreationTime
                      /\ last.out[k].State = SpotRequestPendingAWS

\* A successful tick that returns a placeholder next to a real instance.
C4_Witness ==
    /\ SuccessfulTick
    /\ Len(last.out) = 2
    /\ \E id \in DOMAIN trackedReqs :
          trackedReqs[id].InstanceID = Nil /\ EntriesFor(id) # {}
    /\ \E id \in DOMAIN trackedReqs :
          trackedReqs[id].InstanceID # Nil /\ EntriesFor(trackedReqs[id].InstanceID) # {}

\* A step that makes one more creation attempt.
IsCreationAttempt == attempt'.n = attempt.n + 1

\* C5: launchTimeOffset grows by launchTimeOffsetGrowth in a step that makes a
\* creation attempt rejected with InvalidTime, and no other step changes it.
C5_OffsetMonotonic ==
    [][launchTimeOffset' =
         IF IsCreationAttempt /\ attempt'.err = "InvalidTime"
         THEN launchTimeOffset + launchTimeOffsetGrowth
         ELSE launchTimeOffset]_vars

\* An attempt rejected with InvalidTime after one that failed otherwise: the
\* offset has grown once.
C5_Witness ==
    /\ attempt.err = "InvalidTime"
    /\ "RequestLimitExceeded" \in attempt.prior
    /\ launchTimeOffset = launchTimeOffsetDefault + launchTimeOffsetGrowth

\* C6: one launchSpot call makes at most 5 creation attempts.
C6_AtMostFiveAttempts == attempt.n <= 5

\* C7: a creation attempt that fails with an error other than InvalidTime ends
\* the call: the engine is idle again and launchSpot has returned that error.
C7_OtherErrorAborts ==
    (attempt.n > 0 /\ attempt.err \notin {Nil, "InvalidTime"}) =>
        /\ pc = "idle"
        /\ last.op = "launchSpot"
        /\ last.err = attempt.err

InputIDs == {last.input[k] : k \in 1..Len(last.input)}

\* C8: of the IDs handed to terminateSpot, those that start with "sir-" go to
\* CancelSpotInstanceRequests and not to TerminateInstances, the others go to
\* TerminateInstances and not to CancelSpotInstanceRequests, and neither call
\* is handed anything else.
C8_TerminatePartition ==
    last.op = "terminateSpot" =>
        /\ \A id \in InputIDs :
              IF HasPrefix(id, "sir-")
              THEN /\ id \in IdsPassedTo("CancelSpotInstanceRequests")
                   /\ id \notin IdsPassedTo("TerminateInstances")
              ELSE /\ id \in IdsPassedTo("TerminateInstances")
                   /\ id \notin IdsPassedTo("CancelSpotInstanceRequests")
        /\ IdsPassedTo("CancelSpotInstanceRequests") \cup IdsPassedTo("TerminateInstances")
              \subseteq InputIDs

\* terminateSpot handed a request ID and a string that lacks the dash.
C8_Witness ==
    /\ last.op = "terminateSpot"
    /\ last.input = <<"sir", ReqID(2)>>
    /\ Len(last.calls) = 2

\* C9: every creation attempt submits validFrom = now + approximateClockSkew +
\* launchTimeOffset, for the values the two fields have at the attempt.
C9_ValidFromCountsSkewOnce ==
    attempt.n > 0 => attempt.validFrom = attempt.now + attempt.skew + attempt.offset

\* A step that ends a launchSpot call with the requests created.
LaunchSucceeds == pc = "launch" /\ IsCreationAttempt /\ attempt'.err = Nil

\* C11: when launchSpot(n) succeeds, each of the n requests EC2 created is
\* tracked under its ID with no InstanceID and with the state, status and
\* creation time EC2 gave it, and every entry tracked before is still there,
\* unchanged.
C11_LaunchTracksAll ==
    [][LaunchSucceeds =>
         LET created == DOMAIN awsReqs' \ DOMAIN awsReqs IN
         /\ Cardinality(created) = loop.numInstances
         /\ \A id \in created :
               /\ id \in DOMAIN trackedReqs'
               /\ trackedReqs'[id].SpotRequestID = id
               /\ trackedReqs'[id].InstanceID = Nil
               /\ trackedReqs'[id].State = awsReqs'[id].State
               /\ trackedReqs'[id].StatusCode = awsReqs'[id].StatusCode
               /\ trackedReqs'[id].StatusMessage = awsReqs'[id].StatusMessage
               /\ trackedReqs'[id].CreationTime = awsReqs'[id].CreationTime
         /\ \A id \in DOMAIN trackedReqs :
               id \in DOMAIN trackedReqs' /\ trackedReqs'[id] = trackedReqs[id]
         /\ pc' = "idle"
         /\ last'.err = Nil]_vars

\* launchSpot(1) has succeeded while another request was tracked already.
C11_Witness ==
    /\ last.op = "launchSpot"
    /\ last.err = Nil
    /\ attempt.n > 0
    /\ attempt.err = Nil
    /\ Cardinality(DOMAIN launched) = 1
    /\ Cardinality(DOMAIN trackedReqs) = 2

\* C12: launchSpot(n) with n <= 0 returns nil at once, with no creation attempt
\* and nothing changed; while a launchSpot call is under way the tracked set
\* changes only in the step that succeeds, and a call that ends in failure
\* returns the last attempt's error and has created nothing.
C12_FailedLaunchKeepsTracked ==
    [][/\ (Idle /\ last'.op = "launchSpot" /\ last'.input <= 0) =>
             /\ pc' = "idle"
             /\ last'.err = Nil
             /\ attempt'.n = 0
             /\ trackedReqs' = trackedReqs
             /\ awsReqs' = awsReqs
       /\ (pc = "launch" /\ ~LaunchSucceeds) => trackedReqs' = trackedReqs
       /\ (pc = "launch" /\ pc' = "idle" /\ attempt'.err # Nil) =>
             /\ last'.err = attempt'.err
             /\ awsReqs' = awsReqs]_vars

\* launchSpot has given up after several attempts, with a request tracked
\* from before.
C12_Witness ==
    /\ pc = "idle"
    /\ last.op = "launchSpot"
    /\ last.err # Nil
    /\ attempt.n > 1
    /\ trackedReqs # <<>>

\* C13: after a tick, a request its lookup returned in a state other than open
\* and active is not tracked and has no entry in the returned list; a request
\* the lookup returned as open or active is tracked.
C13_TerminalDropped ==
    last.op = "listSpot" =>
        \A id \in DOMAIN last.newOrInactiveReqs :
            IF last.newOrInactiveReqs[id].State \in {"open", "active"}
            THEN id \in DOMAIN trackedReqs
            ELSE id \notin DOMAIN trackedReqs /\ EntriesFor(id) = {}

\* A tick whose lookup returned a cancelled or closed request and one that is
\* open or active.
C13_Witness ==
    /\ last.op = "listSpot"
    /\ \E id \in DOMAIN last.newOrInactiveReqs :
          last.newOrInactiveReqs[id].State \notin {"open", "active"}
    /\ \E id \in DOMAIN last.newOrInactiveReqs :
          last.newOrInactiveReqs[id].State \in {"open", "active"}

\* The requests a step may stop tracking: those the lookup of a tick returned
\* in a state other than open and active.
FoundTerminal(res) ==
    IF res.op = "listSpot"
    THEN {id \in DOMAIN res.newOrInactiveReqs :
             res.newOrInactiveReqs[id].State \notin {"open", "active"}}
    ELSE {}

\* C14: whatever the step (launchSpot, terminateSpot, a tick that succeeds or
\* fails, calibration, EC2), the tracked requests it drops are among those
\* the lookup of that tick returned in a state other than open and active.
C14_NeverLosesTrack ==
    [][(DOMAIN trackedReqs \ DOMAIN trackedReqs') \subseteq FoundTerminal(last')]_vars

\* A tick that failed after its lookup had returned an open request: the
\* request is still tracked.
C14_Witness ==
    /\ last.op = "listSpot"
    /\ last.err # Nil
    /\ \E id \in DOMAIN last.newOrInactiveReqs :
          /\ last.newOrInactiveReqs[id].State = "open"
          /\ id \in DOMAIN trackedReqs

TerminateStep == Idle /\ last'.op = "terminateSpot"

\* C15 as stated: terminateSpot handed the ID of a tracked request that has no
\* instance leaves a tracked set different from the one before the call.
C15_TerminateMutatesTracked ==
    [][(/\ TerminateStep
        /\ \E k \in 1..Len(last'.input) :
              /\ last'.input[k] \in DOMAIN trackedReqs
              /\ trackedReqs[last'.input[k]].InstanceID = Nil)
       => trackedReqs' # trackedReqs]_vars

\* C15 amended: terminateSpot leaves the tracked set as it was; a request it
\* cancelled stays tracked (until a tick's lookup finds it cancelled).
C15_TerminateKeepsTracked ==
    [][TerminateStep => trackedReqs' = trackedReqs]_vars

\* terminateSpot has cancelled a tracked pending request, which is still
\* tracked.
C15_Witness ==
    /\ last.op = "terminateSpot"
    /\ Len(last.input) = 1
    /\ last.input[1] \in DOMAIN trackedReqs
    /\ trackedReqs[last.input[1]].InstanceID = Nil
    /\ awsReqs[last.input[1]].State = "cancelled"

\* C16: a tick in which no call failed but those of the orphan cleanup (the
\* listing of canceled-but-running requests, TerminateInstances for them)
\* returns no error.
C16_CleanupNeverAborts ==
    (/\ last.op = "listSpot"
     /\ \A k \in 1..Len(last.calls) :
           last.calls[k].err # Nil =>
               last.calls[k].api \in {"ListCanceledButRunning", "TerminateInstances"})
    => last.err = Nil

TickStep == Idle /\ last'.op = "listSpot"

FailedCalls(res) == {k \in 1..Len(res.calls) : res.calls[k].err # Nil}

Entries(res) == {res.out[k] : k \in 1..Len(res.out)}

\* C17: in a tick whose CreateTags call fails, an error is returned only if
\* another call failed too, the tracked set at the end is the one the listing
\* and the lookup determine, and the list returned holds the instances and
\* placeholders of that tracked set: nothing depends on the tagging.
C17_TagFailureIgnored ==
    [][(/\ TickStep
        /\ \E k \in FailedCalls(last') : last'.calls[k].api = "CreateTags")
       => /\ last'.err # Nil =>
                \E k \in FailedCalls(last') : last'.calls[k].api # "CreateTags"
          /\ trackedReqs' =
                stopTracking(trackAll(trackedReqs, last'.activeReqsInAPI),
                             last'.newOrInactiveReqs)
          /\ last'.err = Nil =>
                Entries(last') =
                    {newInstance(i, awsInstances'[i]) :
                        i \in {j \in instanceIds(trackedReqs') :
                                  isNonTerminalInstance(awsInstances'[j].State)}}
                    \cup {pendingInstance(trackedReqs'[id]) :
                             id \in pendingSpotRequests(trackedReqs')}]_vars

\* A successful tick whose CreateTags call failed and that returned two
\* entries.
C17_Witness ==
    /\ SuccessfulTick
    /\ \E k \in FailedCalls(last) : last.calls[k].api = "CreateTags"
    /\ Len(last.out) = 2

ProblemCodes ==
    {"capacity-not-available", "price-too-low", "bad-parameters",
     "constraint-not-fulfillable", "limit-exceeded"}

\* C18 as stated: a successful tick writes an error log for every request that
\* its listing or its lookup returned with one of the five problem codes.
C18_EveryProblemLogged ==
    SuccessfulTick =>
        /\ \A id \in DOMAIN last.activeReqsInAPI :
              last.activeReqsInAPI[id].StatusCode \in ProblemCodes => id \in last.diagnostics
        /\ \A id \in DOMAIN last.newOrInactiveReqs :
              last.newOrInactiveReqs[id].StatusCode \in ProblemCodes => id \in last.diagnostics

\* C18 amended: a successful tick writes one error log for each request its
\* listing returned with capacity-not-available or price-too-low and for each
\* request its lookup returned with bad-parameters, constraint-not-fulfillable
\* or limit-exceeded, and for no other request.
C18_ProblemLoggedPerQuery ==
    SuccessfulTick =>
        last.diagnostics =
            {id \in DOMAIN last.activeReqsInAPI :
                last.activeReqsInAPI[id].StatusCode \in
                    {"capacity-not-available", "price-too-low"}}
            \cup {id \in DOMAIN last.newOrInactiveReqs :
                     last.newOrInactiveReqs[id].StatusCode \in
                         {"bad-parameters", "constraint-not-fulfillable", "limit-exceeded"}}

\* A successful tick that logged a request of its listing and one of its lookup.
C18_Witness ==
    /\ SuccessfulTick
    /\ last.diagnostics \cap DOMAIN last.activeReqsInAPI # {}
    /\ last.diagnostics \cap DOMAIN last.newOrInactiveReqs # {}

CalibrationEnded == last.op = "attemptToApproximateClockSkew" /\ pc = "idle"

\* C19: when the calibration request cannot be created, the skew stays zero,
\* no CancelSpotInstanceRequests call is made, and launchTimeOffset and the
\* tracked set are as the constructor left them.
C19_NoCalibrationRequest ==
    (last.op = "attemptToApproximateClockSkew" /\ last.calls[1].err # Nil) =>
        /\ pc = "idle"
        /\ approximateClockSkew = 0
        /\ CallsTo("CancelSpotInstanceRequests") = {}
        /\ launchTimeOffset = launchTimeOffsetDefault
        /\ trackedReqs = <<>>

\* The calibration has ended on the failure of its RequestSpotInstances call.
C19_Witness ==
    /\ CalibrationEnded
    /\ Len(last.calls) = 1
    /\ last.calls[1].err # Nil

\* C20: once the calibration request was created, the calibration ends with
\* approximateClockSkew = roundDurationUp(awsCreateTime - localCreateTime),
\* however its cleanup ended.
C20_SkewSetOnceMeasured ==
    (CalibrationEnded /\ last.calls[1].err = Nil) =>
        approximateClockSkew = roundDurationUp(approxClockSkew)

\* The call a step of the cleanup loop has made.
CleanupCall == last'.calls[Len(last'.calls)]

\* C21: a pass of the cleanup loop is followed by another exactly when its
\* CancelSpotInstanceRequests call was answered with
\* InvalidSpotInstanceRequestID.NotFound, and the loop ends once EC2 answers
\* with anything else.
C21_CleanupLoop ==
    /\ [][(pc = "cleanup" /\ Len(last'.calls) = Len(last.calls) + 1) =>
            /\ CleanupCall.api = "CancelSpotInstanceRequests"
            /\ pc' = IF CleanupCall.err = "InvalidSpotInstanceRequestID.NotFound"
                     THEN "cleanup" ELSE "idle"]_vars
    /\ (pc = "cleanup") ~> (pc = "idle")

\* The cleanup has succeeded after MaxNotFound answers of "not found".
C21_Witness ==
    /\ CalibrationEnded
    /\ Len(last.calls) = MaxNotFound + 2
    /\ last.calls[MaxNotFound + 1].err = "InvalidSpotInstanceRequestID.NotFound"
    /\ last.calls[MaxNotFound + 2].err = Nil

\* The listing of open and active requests of the tick just made succeeded.
ListingSucceeded(res) ==
    /\ res.op = "listSpot"
    /\ Len(res.calls) > 0
    /\ res.calls[1].api = "ListActive"
    /\ res.calls[1].err = Nil

\* C22: after a tick whose listing of open and active requests succeeded,
\* every request of the listing is tracked exactly as the listing returned it
\* (state, status, InstanceID, creation time), whether it was tracked before
\* the tick or not; the listing returns the requests as EC2 holds them.
C22_ListingRecovered ==
    [][(TickStep /\ ListingSucceeded(last')) =>
         \A id \in DOMAIN last'.activeReqsInAPI :
            /\ id \in DOMAIN trackedReqs'
            /\ trackedReqs'[id] = last'.activeReqsInAPI[id]
            /\ trackedReqs'[id] = spotRequestOf(awsReqs[id])]_vars

\* A tick has tracked a request this process never launched (the tracked set
\* was empty when the listing first returned it) and has given a request
\* launched just before, tracked as pending, the InstanceID of the listing.
C22_Witness ==
    /\ ListingSucceeded(last)
    /\ \E id \in DOMAIN last.activeReqsInAPI \ DOMAIN launched :
          /\ id \in DOMAIN trackedReqs
          /\ awsReqs[id].Deferred
    /\ \E id \in DOMAIN last.activeReqsInAPI \cap DOMAIN launched :
          /\ launched[id].InstanceID = Nil
          /\ last.activeReqsInAPI[id].InstanceID # Nil
          /\ trackedReqs[id].InstanceID = last.activeReqsInAPI[id].InstanceID

\* The tick's call to the given API went through.
CallSucceeded(api) == \E k \in CallsTo(api) : last.calls[k].err = Nil

\* The instances of the requests EC2 holds as cancelled with a running instance.
OrphanInstances == {awsReqs[id].InstanceID : id \in MatchesCanceledRunning}

\* C23: a tick whose listing of canceled-but-running requests succeeded has
\* called TerminateInstances with the instance of every such request, tracked
\* or not, and with nothing else; if that call succeeded none of these
\* instances is left running.
C23_OrphansTerminated ==
    (last.op = "listSpot" /\ CallSucceeded("ListCanceledButRunning")) =>
        /\ IdsPassedTo("TerminateInstances") = OrphanInstances
        /\ OrphanInstances # {} => CallsTo("TerminateInstances") # {}
        /\ CallSucceeded("TerminateInstances") =>
              \A i \in OrphanInstances : awsInstances[i].State # "running"

\* A tick has terminated the instance of a cancelled request it no longer
\* tracks: the instance, fulfilled before the cancellation, is shutting down.
C23_Witness ==
    /\ last.op = "listSpot"
    /\ CallSucceeded("TerminateInstances")
    /\ \E id \in MatchesCanceledRunning \ DOMAIN trackedReqs :
          /\ awsReqs[id].InstanceID \in IdsPassedTo("TerminateInstances")
          /\ awsInstances[awsReqs[id].InstanceID].State = "shutting-down"

\* The place of each remote call in the text of listSpot.
CallRank(api) ==
    CASE api = "ListActive"             -> 1
      [] api = "CreateTags"             -> 2
      [] api = "ListByID"               -> 3
      [] api = "ListCanceledButRunning" -> 4
      [] api = "TerminateInstances"     -> 5
      [] api = "DescribeInstances"      -> 6
      [] OTHER                          -> 0

\* C24: the remote calls of a tick are made one after the other in the order
\* listing, tagging, lookup by ID, canceled-but-running listing, instance
\* termination, describe-instances, each at most once; and the lookup is asked
\* for exactly the requests tracked before the tick or listed by it that the
\* listing did not return.
C24_CallOrder ==
    /\ [](last.op = "listSpot" =>
            /\ Len(last.calls) > 0
            /\ \A k \in 1..Len(last.calls) : CallRank(last.calls[k].api) > 0
            /\ CallRank(last.calls[1].api) = 1
            /\ \A j, k \in 1..Len(last.calls) :
                  j < k => CallRank(last.calls[j].api) < CallRank(last.calls[k].api))
    /\ [][(TickStep /\ ListingSucceeded(last')) =>
            IdsPassedTo("ListByID")' =
               (DOMAIN trackedReqs \cup DOMAIN last'.activeReqsInAPI)
                  \ DOMAIN last'.activeReqsInAPI]_vars

\* A tick has made all six calls, the lookup for a tracked request the
\* listing did not return.
C24_Witness ==
    /\ last.op = "listSpot"
    /\ Len(last.calls) = 6
    /\ IdsPassedTo("ListByID") # {}
    /\ IdsPassedTo("ListByID") \cap DOMAIN last.activeReqsInAPI = {}
    /\ DOMAIN last.activeReqsInAPI # {}

\* The calls whose failure ends a tick.
FatalCalls == {"ListActive", "ListByID", "DescribeInstances"}

\* C25: a tick in which the listing of open and active requests, the lookup by
\* ID or DescribeInstances failed returns an error and no instance; if it was
\* the listing that failed, the tracked set is what it was before the tick.
C25_FailedQueryFailsTick ==
    [][(/\ TickStep
        /\ \E k \in FailedCalls(last') : last'.calls[k].api \in FatalCalls)
       => /\ last'.err # Nil
          /\ last'.out = <<>>
          /\ (~ListingSucceeded(last')) => trackedReqs' = trackedReqs]_vars

\* A tick that tracks a fulfilled request has failed in DescribeInstances and
\* returned the error alone.
C25_Witness ==
    /\ last.op = "listSpot"
    /\ \E k \in FailedCalls(last) : last.calls[k].api = "DescribeInstances"
    /\ last.err = ErrDescribeInstances
    /\ last.out = <<>>
    /\ runningSpotInstanceIds(trackedReqs) # {}

\* The requests a tick was handed without a status code or without a status
\* message, by the listing or by the lookup.
WithoutStatus(res) ==
    withoutStatusCode(res.activeReqsInAPI) \cup withoutStatusCode(res.newOrInactiveReqs)
       \cup withoutStatusMessage(res.activeReqsInAPI)
       \cup withoutStatusMessage(res.newOrInactiveReqs)

\* C26: a tick that the listing or the lookup hands a request without a status
\* code or without a status message runs to its end without a fault, and logs
\* no such request as needing the user's attention.
C26_AbsentStatusTolerated ==
    (last.op = "listSpot" /\ WithoutStatus(last) # {}) =>
        /\ pc # "crashed"
        /\ last.err # ErrNilDereference
        /\ last.diagnostics \cap WithoutStatus(last) = {}

\* The throwaway request of the calibration: the one request made valid from
\* a hundred hours ahead.
CalibrationRequests == {id \in DOMAIN awsReqs : awsReqs[id].Deferred}

\* C27: the request created to measure the clock skew is never tracked and
\* never returned by a tick as a pending placeholder, even when its
\* cancellation was given up and EC2 still holds it open.
C27_CalibrationNeverCounted ==
    \A id \in CalibrationRequests :
       /\ id \notin DOMAIN trackedReqs
       /\ last.op = "listSpot" => EntriesFor(id) = {}

\* The remote calls that are given a list of IDs.
IDListCalls == {"ListByID", "CancelSpotInstanceRequests", "TerminateInstances", "CreateTags"}

\* C28: no lookup by ID, cancellation, instance termination or tagging is ever
\* called with an empty list of IDs, a skipped lookup leaves its result empty,
\* and terminateSpot handed an empty list makes no call.
C28_NoEmptyIDList ==
    /\ \A k \in 1..Len(last.calls) :
          last.calls[k].api \in IDListCalls => last.calls[k].ids # {}
    /\ (last.op = "listSpot" /\ CallsTo("ListByID") = {}) => last.newOrInactiveReqs = <<>>
    /\ (last.op = "terminateSpot" /\ last.input = <<>>) => last.calls = <<>>

\* A successful tick with requests tracked, none fulfilled, none missing from
\* the listing and none cancelled with a running instance has made the two
\* listings and no other call.
C28_Witness ==
    /\ SuccessfulTick
    /\ DOMAIN trackedReqs # {}
    /\ Len(last.calls) = 2
    /\ last.calls[1].api = "ListActive"
    /\ last.calls[2].api = "ListCanceledButRunning"

\* The entries of the returned list that stand for a request still pending.
Placeholders == {k \in 1..Len(last.out) : last.out[k].State = SpotRequestPendingAWS}

\* C29: in the list a successful tick returns, the instances of the tracked
\* fulfilled requests that are neither terminated nor shutting down come
\* first and the placeholders of the tracked pending requests after them: no
\* placeholder stands before a real instance.
C29_RealThenPlaceholders ==
    SuccessfulTick =>
        /\ \A j, k \in 1..Len(last.out) : (j \in Placeholders /\ k \notin Placeholders) => k < j
        /\ {last.out[k].ID : k \in Placeholders} = pendingSpotRequests(trackedReqs)
        /\ {last.out[k].ID : k \in (1..Len(last.out)) \ Placeholders} =
              {i \in runningSpotInstanceIds(trackedReqs) :
                  isNonTerminalInstance(awsInstances[i].State)}

\* A tick has returned a real instance followed by a placeholder.
C29_Witness ==
    /\ SuccessfulTick
    /\ Len(last.out) = 2
    /\ 1 \notin Placeholders
    /\ 2 \in Placeholders

(***************************************************************************)
(* roundDurationUp on its own: every measurement in -MaxDur..MaxDur is     *)
(* rounded the way attemptToApproximateClockSkew rounds it (lines 397-398).*)
(***************************************************************************)
InitRound ==
    /\ trackedReqs = newSetOfSpotRequests
    /\ approximateClockSkew = 0
    /\ launchTimeOffset = launchTimeOffsetDefault
    /\ approxClockSkew \in (0 - MaxDur)..MaxDur
    /\ pc = "round"
    /\ loop = NoLoop
    /\ awsReqs = <<>>
    /\ awsInstances = <<>>
    /\ awsClock = 100
    /\ awsSkew = 0
    /\ attempt = NoAttempt
    /\ launched = <<>>
    /\ last = NoResult("aws", Nil)

RoundStep ==
    /\ pc = "round"
    /\ approximateClockSkew' = roundDurationUp(approxClockSkew)
    /\ pc' = "idle"
    /\ UNCHANGED <<trackedReqs, launchTimeOffset, approxClockSkew, loop, awsReqs, awsInstances,
                   awsClock, awsSkew, attempt, launched, last>>

SpecRound == InitRound /\ [][RoundStep]_vars

Abs(x) == IF x < 0 THEN 0 - x ELSE x
Sign(x) == IF x < 0 THEN 0 - 1 ELSE IF x > 0 THEN 1 ELSE 0

\* C10 as stated: the rounded skew is a multiple of 10 s, at least as large in
\* magnitude as the measurement and less than 10 s larger, with the
\* measurement's sign: rounding is away from zero for either sign.
C10_AwayFromZero ==
    pc = "idle" =>
        /\ approximateClockSkew % roundInterval = 0
        /\ Abs(approximateClockSkew) >= Abs(approxClockSkew)
        /\ Abs(approximateClockSkew) < Abs(approxClockSkew) + roundInterval
        /\ Sign(approximateClockSkew) = Sign(approxClockSkew)

\* C10 amended: roundDurationUp(d) is the least multiple of 10 s that is not
\* below d (a ceiling): d <= result < d + 10 s. A positive d moves away from
\* zero, a negative d moves toward zero (-3 s becomes 0).
C10_Ceiling ==
    pc = "idle" =>
        /\ approximateClockSkew % roundInterval = 0
        /\ approxClockSkew <= approximateClockSkew
        /\ approximateClockSkew < approxClockSkew + roundInterval

C10_Witness ==
    pc = "idle" /\ approxClockSkew = 0 - 3 /\ approximateClockSkew = 0

=============================================================================
